---- MODULE Spec2Model ----
(***************************************************************************)
(* A model of flexx/app/_asset.py: the dependency resolver                 *)
(* solve_dependencies and the Bundle container built on top of it.         *)
(*                                                                         *)
(* Positions in lists are 0-based as in the Python source; a TLA+ sequence *)
(* s holds the Python element s[i] at s[i + 1].                            *)
(***************************************************************************)
EXTENDS Integers, Sequences, FiniteSets, TLC

(***************************************************************************)
(* Bounds of the resolver inputs.                                          *)
(***************************************************************************)
\* number of distinct item names an input list is drawn from
NumNames == 3
\* total number of declared dependencies over all items of one input
MaxEdges == 3

AllNames == <<"a", "b", "c", "d", "e">>

\* the names of the items and of their dependencies; an input lists any
\* of them, so that a dependency on a name it leaves out is a missing one
Names == {AllNames[i] : i \in 1..NumNames}

DepTargets == Names

(***************************************************************************)
(* Generic helpers on sequences.                                           *)
(***************************************************************************)
Range(s) == {s[i] : i \in 1..Len(s)}

NoDup(s) == \A i, k \in 1..Len(s) : i # k => s[i] # s[k]

Contains(s, x) == \E i \in 1..Len(s) : s[i] = x

\* all duplicate-free sequences over S of length exactly n
RECURSIVE SeqsOfLen(_, _)
SeqsOfLen(S, n) ==
    IF n = 0 THEN {<<>>}
    ELSE UNION {{Append(s, x) : x \in S \ Range(s)} : s \in SeqsOfLen(S, n - 1)}

\* all orderings of the set S
Orderings(S) == SeqsOfLen(S, Cardinality(S))

(***************************************************************************)
(* Inputs of solve_dependencies: a list of things, each with a name and a  *)
(* deps attribute.  deps is given as a sequence: its iteration order.      *)
(***************************************************************************)
Thing(n, d) == [name |-> n, deps |-> d]

\* the lists of things named as in the sequence order that declare at most
\* budget dependencies in total
RECURSIVE ThingLists(_, _)
ThingLists(order, budget) ==
    IF order = <<>> THEN {<<>>}
    ELSE UNION {LET rest == ThingLists(Tail(order), budget - k)
                IN  {<<Thing(Head(order), d)>> \o r :
                        d \in SeqsOfLen(DepTargets, k), r \in rest} :
                k \in 0..budget}

\* the orders in which the items of an input can be listed: distinct names
InputOrders == UNION {Orderings(S) : S \in SUBSET Names}

(***************************************************************************)
(* solve_dependencies(things, warn_missing)                                *)
(***************************************************************************)
\* names = [thing.name for thing in things]
NamesOf(things) == [i \in 1..Len(things) |-> things[i].name]

\* thingmap = dict(zip(names, things)): a later thing replaces an earlier
\* one of the same name
ThingMap(things) ==
    [n \in Range(NamesOf(things)) |->
        things[CHOOSE i \in 1..Len(things) :
                  /\ things[i].name = n
                  /\ \A k \in i + 1..Len(things) : things[k].name # n]]

\* names.index(x): the 0-based position of the first occurrence of x
ListIndex(names, x) ==
    (CHOOSE i \in 1..Len(names) :
        names[i] = x /\ \A k \in 1..i - 1 : names[k] # x) - 1

\* list.insert(i, x) of Python: a negative i counts from the end
ListInsert(list, i, x) ==
    LET at == IF i >= 0 THEN (IF i > Len(list) THEN Len(list) ELSE i)
              ELSE (IF Len(list) + i < 0 THEN 0 ELSE Len(list) + i)
    IN  SubSeq(list, 1, at) \o <<x>> \o SubSeq(list, at + 1, Len(list))

\* list.pop(j) of Python: the list that is left
ListPopped(list, j) == SubSeq(list, 1, j) \o SubSeq(list, j + 2, Len(list))

\* faulty variant: names.insert(index, names[j]), nothing is popped
PopInsertKeep(names, index, j) == ListInsert(names, index, names[j + 1])

\* faulty variant: names.insert(index - 1, names.pop(j))
PopInsertBefore(names, index, j) ==
    ListInsert(ListPopped(names, j), index - 1, names[j + 1])

\* faulty variant: names[index], names[j] = names[j], names[index]
PopInsertSwap(names, index, j) ==
    [names EXCEPT ![index + 1] = names[j + 1], ![j + 1] = names[index + 1]]

\* names.insert(index, names.pop(j)), 0-based positions
PopInsert(names, index, j) ==
    ListInsert(ListPopped(names, j), index, names[j + 1])

\* faulty variant: if j >= index
MustMoveSelf(j, index) == j >= index

\* faulty variant: if j > index + 1
MustMoveOffByOne(j, index) == j > index + 1

\* the comparison that decides whether a dependency has to be moved
MustMove(j, index) == j > index

\* faulty variant: a break after the warning for a missing dependency, which leaves
\* the for loop without a move and skips its else branch
RECURSIVE ScanDepsBreak(_, _, _, _)
ScanDepsBreak(names, index, deps, k) ==
    IF k > Len(deps) THEN [j |-> -1, missing |-> <<>>]
    ELSE IF ~Contains(names, deps[k])
         THEN [j |-> index, missing |-> <<deps[k]>>]
         ELSE IF MustMove(ListIndex(names, deps[k]), index)
              THEN [j |-> ListIndex(names, deps[k]), missing |-> <<>>]
              ELSE ScanDepsBreak(names, index, deps, k + 1)

\* the for loop over thingmap[name].deps from its k-th element on: the
\* position j of the first dependency that has to be moved (-1 when the
\* loop runs to its else branch) and the missing dependencies met on the way
RECURSIVE ScanDeps(_, _, _, _)
ScanDeps(names, index, deps, k) ==
    IF k > Len(deps) THEN [j |-> -1, missing |-> <<>>]
    ELSE IF ~Contains(names, deps[k])
         THEN LET r == ScanDeps(names, index, deps, k + 1)
              IN  [j |-> r.j, missing |-> <<deps[k]>> \o r.missing]
         ELSE IF MustMove(ListIndex(names, deps[k]), index)
              THEN [j |-> ListIndex(names, deps[k]), missing |-> <<>>]
              ELSE ScanDeps(names, index, deps, k + 1)

\* the warnings logged by one run of the for loop over the deps of name
LoggedWarnings(warn, name, missing) ==
    IF warn THEN [i \in 1..Len(missing) |-> <<name, missing[i]>>] ELSE <<>>

\* faulty variant: the seen names are not looked at
SeenBeforeNever(name, seen) == FALSE

\* the membership test that detects a circular dependency
SeenBefore(name, seen) == name \in seen

\* faulty variant: break instead of raise, the index is given up as it is
CircularSkip(st) == [st EXCEPT !.index = @ + 1, !.pc = "for"]

\* raise RuntimeError('Detected circular dependency!')
Circular(st) == [st EXCEPT !.pc = "raised"]

\* The state of one call: the working list, the loop index, the seen set,
\* the warnings logged so far, and the position in the code:
\*   "for"    at the head of the for loop, about to test index < len(names)
\*   "while"  at the head of the while loop
\*   "done"   returned,  "raised"  RuntimeError raised
CallState(things) ==
    [names |-> NamesOf(things), index |-> 0, seen_names |-> {},
     warnings |-> <<>>, pc |-> "for"]

\* one step of the call: the head of the for loop, or one iteration of the
\* while loop
SolveStep(st, thingmap, warn) ==
    IF st.pc = "for"
    THEN IF st.index < Len(st.names)
         THEN [st EXCEPT !.seen_names = {}, !.pc = "while"]
         ELSE [st EXCEPT !.pc = "done"]
    ELSE LET name == st.names[st.index + 1]
             scan == ScanDeps(st.names, st.index, thingmap[name].deps, 1)
             logged == st.warnings \o LoggedWarnings(warn, name, scan.missing)
         IN  IF SeenBefore(name, st.seen_names)
             THEN Circular(st)
             ELSE IF scan.j >= 0
                  THEN [st EXCEPT !.seen_names = @ \cup {name},
                                  !.warnings = logged,
                                  !.names = PopInsert(@, st.index, scan.j)]
                  ELSE [st EXCEPT !.seen_names = @ \cup {name},
                                  !.warnings = logged,
                                  !.index = @ + 1,
                                  !.pc = "for"]

RECURSIVE RunSolve(_, _, _)
RunSolve(st, thingmap, warn) ==
    IF st.pc \in {"done", "raised"} THEN st
    ELSE RunSolve(SolveStep(st, thingmap, warn), thingmap, warn)

\* the outcome of a call that ended in state st: whether it raised, the
\* list it returned (none when it raised), and the warnings it logged
OutcomeOf(st, thingmap) ==
    [raised |-> st.pc = "raised",
     result |-> IF st.pc = "done"
                THEN [i \in 1..Len(st.names) |-> thingmap[st.names[i]]]
                ELSE <<>>,
     warnings |-> st.warnings]

\* the outcome of a whole call
solve_dependencies(things, warn) ==
    OutcomeOf(RunSolve(CallState(things), ThingMap(things), warn), ThingMap(things))

(***************************************************************************)
(* Strings.  A Python str is modelled as the sequence of its characters,   *)
(* so that startswith, split and the ordering of names are computed.       *)
(***************************************************************************)
\* ord(c) for the characters that occur in the names of the model
Ord ==
    [c \in {"-", ".", "J", "S", "a", "b", "c", "j", "o", "p", "s", "v", "x"} |->
        CASE c = "-" -> 45 [] c = "." -> 46 [] c = "J" -> 74 [] c = "S" -> 83
          [] c = "a" -> 97 [] c = "b" -> 98 [] c = "c" -> 99 [] c = "j" -> 106
          [] c = "o" -> 111 [] c = "p" -> 112 [] c = "s" -> 115
          [] c = "v" -> 118 [] c = "x" -> 120]

\* a < b for str: lexicographic by code point
RECURSIVE StrLess(_, _)
StrLess(a, b) ==
    IF b = <<>> THEN FALSE
    ELSE IF a = <<>> THEN TRUE
    ELSE IF Head(a) # Head(b) THEN Ord[Head(a)] < Ord[Head(b)]
    ELSE StrLess(Tail(a), Tail(b))

\* s.startswith(prefix)
StartsWith(s, prefix) ==
    Len(prefix) <= Len(s) /\ SubSeq(s, 1, Len(prefix)) = prefix

\* c in s
HasChar(s, c) == \E i \in 1..Len(s) : s[i] = c

\* the positions of c in s
CharPositions(s, c) == {i \in 1..Len(s) : s[i] = c}

Max(S) == CHOOSE x \in S : \A y \in S : y <= x
Min(S) == CHOOSE x \in S : \A y \in S : x <= y

\* s.rsplit('.', 1)[0]
RSplitHead(s) ==
    IF HasChar(s, ".") THEN SubSeq(s, 1, Max(CharPositions(s, ".")) - 1) ELSE s

\* s.rsplit('.')[-1]
RSplitLast(s) ==
    IF HasChar(s, ".") THEN SubSeq(s, Max(CharPositions(s, ".")) + 1, Len(s)) ELSE s

\* s.split('-')[0]
SplitDashHead(s) ==
    IF HasChar(s, "-") THEN SubSeq(s, 1, Min(CharPositions(s, "-")) - 1) ELSE s

\* s.lower()
Lower(s) ==
    [i \in 1..Len(s) |->
        CASE s[i] = "J" -> "j" [] s[i] = "S" -> "s" [] OTHER -> s[i]]

(***************************************************************************)
(* Bundle                                                                  *)
(***************************************************************************)
\* self._module_name as set by Bundle.__init__
ModuleNameOf(name) == SplitDashHead(RSplitHead(name))

\* ext in add_module
ExtOf(name) == <<".">> \o Lower(RSplitLast(name))

\* faulty variant: the namespace of a module is not looked at
BelongsInAlways(mname, module_name) == TRUE

\* if not m.name.startswith(self._module_name): raise ValueError
BelongsIn(mname, module_name) == StartsWith(mname, module_name)

\* faulty variant: the expansion stops before the last deps.add(dep)
RECURSIVE ExpandDepDotted(_)
ExpandDepDotted(dep) ==
    IF HasChar(dep, ".") THEN {dep} \cup ExpandDepDotted(RSplitHead(dep)) ELSE {}

\* the names added to deps for one dependency dep of the module
RECURSIVE ExpandDep(_)
ExpandDep(dep) ==
    IF HasChar(dep, ".") THEN {dep} \cup ExpandDep(RSplitHead(dep)) ELSE {dep}

\* a dependency that is represented by the bundle itself
Represented(dep, module_name) ==
    \/ StartsWith(dep, module_name)
    \/ StartsWith(module_name, dep \o <<".">>)

\* faulty variant: the names are added without the extension
NewBundleDepsNoExt(name, mdeps) ==
    {d \in UNION {ExpandDep(mdeps[i]) : i \in 1..Len(mdeps)} :
        ~Represented(d, ModuleNameOf(name))}

\* what add_module adds to self._deps for a module with the deps mdeps
NewBundleDeps(name, mdeps) ==
    {dep \o ExtOf(name) :
        dep \in {d \in UNION {ExpandDep(mdeps[i]) : i \in 1..Len(mdeps)} :
                    ~Represented(d, ModuleNameOf(name))}}

\* faulty variant: the list is handed to the resolver as it is
InsertionOrder(list) == list

\* sorted(list, key=lambda m: m.name), for modules identified by their names
RECURSIVE SortedByName(_)
SortedByName(list) ==
    IF list = <<>> THEN <<>>
    ELSE LET rest == SortedByName(Tail(list))
             before == {i \in 1..Len(rest) : ~StrLess(Head(list), rest[i])}
             at == IF before = {} THEN 0 ELSE Max(before)
         IN  SubSeq(rest, 1, at) \o <<Head(list)>> \o SubSeq(rest, at + 1, Len(rest))

\* the module objects of a list of module names, with their current deps
AsThings(list, deps) == [i \in 1..Len(list) |-> Thing(list[i], deps[list[i]])]

\* solve_dependencies(sorted(self._modules, key=f))
SortModules(list, deps) == solve_dependencies(AsThings(SortedByName(list), deps), FALSE)

\* faulty variant: the flag is cleared once the modules are sorted
NeedSortCleared(flag) == FALSE

\* self._need_sort after the modules property has sorted
NeedSortAfterSort(flag) == flag

(***************************************************************************)
(* Bounds and inputs of the bundles.                                       *)
(***************************************************************************)
\* the length up to which add_module is called on one bundle
MaxModules == 3
\* total number of dependencies the module objects declare at one time
MaxModEdges == 2

\* the number of modules added to each of two bundles that are then ordered
MaxOrderModules == 1

\* how often the source of one asset is called or fetched
MaxInvoked == 2

\* the length up to which add_asset is called on one bundle
MaxAssets == 2

Bundles == {1, 2}

\* the Asset objects that are no bundles
Assets == {"asset1", "asset2"}

\* the objects add_asset is called with: an Asset, another Bundle, or an
\* object that is no Asset at all
Addable == Assets \cup {"bundle2", "no_asset"}

\* isinstance(a, Asset); Bundle is a subclass of Asset
IsAsset(a) == a \in Assets \cup {"bundle2"}

\* faulty variant: the test for a Bundle is left out
IsBundleNever(a) == FALSE

\* isinstance(a, Bundle)
IsBundle(a) == a = "bundle2"

\* the names bundles are constructed with
BundleNames ==
    {<<"p", ".", "j", "s">>, <<"o", ".", "j", "s">>,
     <<"p", ".", "b", ".", "J", "S">>, <<"p", "-", "v", ".", "c", "s", "s">>}

\* the names of the module objects, which are also the names they depend on
ModNames ==
    {<<"p", ".", "a">>, <<"p", ".", "b">>, <<"p", ".", "b", ".", "c">>,
     <<"o", ".", "x">>}

\* the deps attributes the module objects can have together
RECURSIVE DepsAssignments(_, _)
DepsAssignments(mods, budget) ==
    IF mods = {} THEN {<<>>}
    ELSE LET m == CHOOSE x \in mods : TRUE
         IN  UNION {LET rest == DepsAssignments(mods \ {m}, budget - k)
                    IN  {(m :> d) @@ r : d \in SeqsOfLen(ModNames, k), r \in rest} :
                    k \in 0..budget}

DeclaredEdges(deps) ==
    LET RECURSIVE Sum(_)
        Sum(S) == IF S = {} THEN 0
                  ELSE LET m == CHOOSE x \in S : TRUE
                       IN  Len(deps[m]) + Sum(S \ {m})
    IN  Sum(DOMAIN deps)

(***************************************************************************)
(* State.                                                                  *)
(***************************************************************************)
VARIABLES
    things,        \* the list passed to solve_dependencies
    warn_missing,  \* the flag passed to solve_dependencies
    call,          \* the state of the call, see CallState
    calls,         \* how many calls have completed
    first          \* the outcome of the first completed call

VARIABLES
    name,          \* name[b]: Asset._name of bundle b
    _modules,      \* _modules[b]: the list of modules, by module name
    _need_sort,    \* _need_sort[b]
    _deps,         \* _deps[b]: a set of str
    _assets,       \* _assets[b]: the list of assets
    _source,       \* _source[a]: what asset a was constructed from
    _source_str,   \* _source_str[a]: None or the value kept by to_string
    invoked,       \* how often the source of a was called or fetched
    returned,      \* how the last Asset.to_string ended
    mod_deps,      \* mod_deps[m]: the deps attribute of the module named m
    last,          \* the last operation on a bundle and how it ended
    order          \* order[b]: "none" before the modules property has
                   \* returned an order; then "fresh"; "stale" once the deps
                   \* of a contained module have changed since; "renewed"
                   \* once the property has returned an order after that

solver_vars == <<things, warn_missing, call, calls, first>>

bundle_vars ==
    <<name, _modules, _need_sort, _deps, _assets, mod_deps, last, order>>

asset_vars == <<_source, _source_str, invoked, returned>>

vars == <<solver_vars, bundle_vars, asset_vars>>

NoOutcome == [raised |-> FALSE, result |-> <<>>, warnings |-> <<>>]

NoOperation == [op |-> "none", b |-> 0, raised |-> FALSE]

\* the outcome of the call whose final state is call
Outcome == OutcomeOf(call, ThingMap(things))

\* no call of solve_dependencies by the caller of the resolver
SolverIdle ==
    /\ things = <<>>
    /\ warn_missing = FALSE
    /\ call = CallState(<<>>)
    /\ calls = 0
    /\ first = NoOutcome

\* Bundle.__init__ for each bundle
NewBundles(names) ==
    /\ name = names
    /\ _modules = [b \in Bundles |-> <<>>]
    /\ _need_sort = [b \in Bundles |-> FALSE]
    /\ _deps = [b \in Bundles |-> {}]
    /\ _assets = [b \in Bundles |-> <<>>]
    /\ last = NoOperation
    /\ order = [b \in Bundles |-> "none"]

\* no module objects and two bundles that are never used
\* the values of the content model: the values a source function returns
\* (a str, something that is no str, None) and a fetch that raises
Str(v) == [type |-> "str", v |-> v]
None == [type |-> "NoneType", v |-> "None"]
NoStr == [type |-> "int", v |-> "7"]
FetchError == [type |-> "URLError", v |-> "timed out"]

\* isinstance(x, str)
IsStr(x) == x.type = "str"

\* an Asset is constructed from a str with its content, from a function or
\* from a URL
SourceKinds == {"literal", "function", "url"}

\* what self._source() returns, what _get_from_url gives
Yields(kind) ==
    IF kind = "function" THEN {Str("s1"), Str("s2"), NoStr, None}
    ELSE IF kind = "url" THEN {Str("s1"), FetchError}
    ELSE {None}

\* no value of to_string is held: none was returned, or another call was
\* made since
NoReturn == [asset |-> "none", raised |-> FALSE, value |-> None]

\* Asset.__init__ for each asset
NewAssets(kinds) ==
    /\ _source = kinds
    /\ _source_str = [a \in Assets |->
                        IF kinds[a] = "literal" THEN Str("s1") ELSE None]
    /\ invoked = [a \in Assets |-> 0]
    /\ returned = NoReturn

AssetsIdle == NewAssets([a \in Assets |-> "literal"])

\* faulty variant: the kept value is not looked at
IsNoneAlways(src_str) == TRUE

\* if self._source_str is None
IsNone(src_str) == src_str = None

\* Asset.to_string on an asset of this kind that keeps src_str, when the
\* source yields y: whether it raises, the value it returns, the value it
\* keeps and whether the source was called or fetched
AssetToString(kind, src_str, y) ==
    IF ~IsNone(src_str)
    THEN [raised |-> FALSE, value |-> src_str, _source_str |-> src_str,
          invoked |-> 0]
    ELSE IF kind = "function"
    THEN [raised |-> ~IsStr(y), value |-> IF IsStr(y) THEN y ELSE None,
          _source_str |-> y, invoked |-> 1]
    ELSE IF kind = "url"
    THEN IF y = FetchError
         THEN [raised |-> TRUE, value |-> None, _source_str |-> src_str,
               invoked |-> 1]
         ELSE [raised |-> FALSE, value |-> y, _source_str |-> y,
               invoked |-> 1]
    ELSE [raised |-> TRUE, value |-> None, _source_str |-> src_str,
          invoked |-> 0]

BundlesIdle ==
    /\ NewBundles([b \in Bundles |-> <<"p", ".", "j", "s">>])
    /\ mod_deps = [m \in ModNames |-> <<>>]

Init ==
    /\ \E o \in InputOrders : things \in ThingLists(o, MaxEdges)
    /\ warn_missing \in BOOLEAN
    /\ call = CallState(things)
    /\ calls = 0
    /\ first = NoOutcome
    /\ BundlesIdle
    /\ AssetsIdle

(***************************************************************************)
(* Whole calls.                                                            *)
(***************************************************************************)
\* solve_dependencies(things, warn_missing) runs to its return or raise
Call ==
    /\ calls = 0 /\ call.pc = "for" /\ call.index = 0
    /\ call' = RunSolve(call, ThingMap(things), warn_missing)
    /\ calls' = 1
    /\ first' = OutcomeOf(call', ThingMap(things))
    /\ UNCHANGED <<things, warn_missing, bundle_vars, asset_vars>>

\* the caller passes the returned list to solve_dependencies again
CallAgain ==
    /\ calls = 1 /\ call.pc = "done"
    /\ things' = first.result
    /\ call' = RunSolve(CallState(things'), ThingMap(things'), warn_missing)
    /\ calls' = 2
    /\ UNCHANGED <<warn_missing, first, bundle_vars, asset_vars>>

Next == Call \/ CallAgain

Spec == Init /\ [][Next]_vars

(***************************************************************************)
(* One call of solve_dependencies, step by step.                           *)
(***************************************************************************)
Stepped == SolveStep(call, ThingMap(things), warn_missing)

\* for index in range(len(names)): enter the body
ForIter ==
    /\ call.pc = "for" /\ call.index < Len(call.names)
    /\ call' = Stepped
    /\ UNCHANGED <<things, warn_missing, calls, first, bundle_vars, asset_vars>>

\* the for loop is exhausted: return
Return ==
    /\ call.pc = "for" /\ call.index >= Len(call.names)
    /\ call' = Stepped
    /\ UNCHANGED <<things, warn_missing, calls, first, bundle_vars, asset_vars>>

\* raise RuntimeError('Detected circular dependency!')
Raise ==
    /\ call.pc = "while" /\ Stepped.pc = "raised"
    /\ call' = Stepped
    /\ UNCHANGED <<things, warn_missing, calls, first, bundle_vars, asset_vars>>

\* a dependency behind index is moved to index; do this index again
Pull ==
    /\ call.pc = "while" /\ Stepped.pc = "while"
    /\ call' = Stepped
    /\ UNCHANGED <<things, warn_missing, calls, first, bundle_vars, asset_vars>>

\* no changes, move to next index
Settle ==
    /\ call.pc = "while" /\ Stepped.pc = "for"
    /\ call' = Stepped
    /\ UNCHANGED <<things, warn_missing, calls, first, bundle_vars, asset_vars>>

NextSteps == ForIter \/ Return \/ Raise \/ Pull \/ Settle

SpecSteps == Init /\ [][NextSteps]_vars

(***************************************************************************)
(* Assets and the calls of to_string on them.                              *)
(***************************************************************************)
InitAsset ==
    /\ SolverIdle
    /\ BundlesIdle
    /\ \E kinds \in [Assets -> SourceKinds] : NewAssets(kinds)

\* Asset.to_string() on asset a
asset_to_string(a) ==
    /\ \E y \in Yields(_source[a]) :
          LET r == AssetToString(_source[a], _source_str[a], y)
          IN  /\ invoked[a] + r.invoked <= MaxInvoked
              /\ _source_str' = [_source_str EXCEPT ![a] = r._source_str]
              /\ invoked' = [invoked EXCEPT ![a] = @ + r.invoked]
              /\ returned' = [asset |-> a, raised |-> r.raised,
                              value |-> r.value]
    /\ UNCHANGED <<_source, solver_vars, bundle_vars>>

NextAsset == \E a \in Assets : asset_to_string(a)

SpecAsset == InitAsset /\ [][NextAsset]_vars

(***************************************************************************)
(* One bundle and the module objects added to it.                          *)
(***************************************************************************)
InitBundle ==
    /\ SolverIdle
    /\ \E n \in BundleNames :
          NewBundles([b \in Bundles |-> IF b = 1 THEN n ELSE <<"o", ".", "j", "s">>])
    /\ mod_deps \in DepsAssignments(ModNames, MaxModEdges)
    /\ AssetsIdle

\* how an operation on bundle b ended
Ended(op, b, raised) == [op |-> op, b |-> b, raised |-> raised]

\* Bundle.add_module(m) on bundle b, for the module object named m; a module
\* object is added to a bundle once
add_module(b, m) ==
    /\ Len(_modules[b]) < MaxModules
    /\ ~Contains(_modules[b], m)
    /\ IF ~BelongsIn(m, ModuleNameOf(name[b]))
       THEN /\ last' = Ended("add_module", b, TRUE)
            /\ UNCHANGED <<_modules, _need_sort, _deps>>
       ELSE /\ _modules' = [_modules EXCEPT ![b] = Append(@, m)]
            /\ _need_sort' = [_need_sort EXCEPT ![b] = TRUE]
            /\ _deps' = [_deps EXCEPT ![b] = @ \cup NewBundleDeps(name[b], mod_deps[m])]
            /\ last' = Ended("add_module", b, FALSE)
    /\ returned' = NoReturn
    /\ UNCHANGED <<name, _assets, mod_deps, order, solver_vars, _source,
                   _source_str, invoked>>

\* Bundle.add_asset(a) on bundle b
add_asset(b, a) ==
    /\ Len(_assets[b]) < MaxAssets
    /\ IF ~IsAsset(a) \/ IsBundle(a)
       THEN /\ last' = Ended("add_asset", b, TRUE)
            /\ UNCHANGED _assets
       ELSE /\ _assets' = [_assets EXCEPT ![b] = Append(@, a)]
            /\ last' = Ended("add_asset", b, FALSE)
    /\ returned' = NoReturn
    /\ UNCHANGED <<name, _modules, _need_sort, _deps, mod_deps, order,
                   solver_vars, _source, _source_str, invoked>>

\* order[b] once the modules property has returned an order
Returned(was) == IF was \in {"stale", "renewed"} THEN "renewed" ELSE "fresh"

\* reading the property Bundle.modules of bundle b
modules(b) ==
    LET sorted == SortModules(_modules[b], mod_deps)
    IN  /\ IF _need_sort[b]
           THEN IF sorted.raised
                THEN /\ last' = Ended("modules", b, TRUE)
                     /\ UNCHANGED <<_modules, _need_sort, order>>
                ELSE /\ _modules' = [_modules EXCEPT ![b] = NamesOf(sorted.result)]
                     /\ _need_sort' = [_need_sort EXCEPT ![b] = NeedSortAfterSort(@)]
                     /\ order' = [order EXCEPT ![b] = Returned(@)]
                     /\ last' = Ended("modules", b, FALSE)
           ELSE /\ last' = Ended("modules", b, FALSE)
                /\ order' = [order EXCEPT ![b] = Returned(@)]
                /\ UNCHANGED <<_modules, _need_sort>>
        /\ returned' = NoReturn
        /\ UNCHANGED <<name, _deps, _assets, mod_deps, solver_vars, _source,
                       _source_str, invoked>>

\* the owner of the module object named m, which is in a bundle whose
\* modules property has returned an order, replaces its deps attribute
set_deps(m, d) ==
    /\ \E b \in Bundles : Contains(_modules[b], m) /\ order[b] # "none"
    /\ d # mod_deps[m]
    /\ DeclaredEdges([mod_deps EXCEPT ![m] = d]) <= MaxModEdges
    /\ mod_deps' = [mod_deps EXCEPT ![m] = d]
    /\ order' = [b \in Bundles |->
                    IF order[b] # "none" /\ Contains(_modules[b], m)
                    THEN "stale" ELSE order[b]]
    /\ last' = Ended("set_deps", 0, FALSE)
    /\ returned' = NoReturn
    /\ UNCHANGED <<name, _modules, _need_sort, _deps, _assets, solver_vars,
                   _source, _source_str, invoked>>

NextBundle ==
    \/ \E m \in ModNames : add_module(1, m)
    \/ modules(1)
    \/ \E m \in ModNames : \E k \in 0..MaxModEdges :
          \E d \in SeqsOfLen(ModNames, k) : set_deps(m, d)

SpecBundle == InitBundle /\ [][NextBundle]_vars

\* the same without changes of the deps of the module objects
NextAdd ==
    \/ \E m \in ModNames : add_module(1, m)
    \/ modules(1)

SpecAdd == InitBundle /\ [][NextAdd]_vars

(***************************************************************************)
(* Two bundles are filled with modules and then handed to the resolver,    *)
(* which reads the name and the deps of each bundle.  The bundles have     *)
(* different names; bundle 1 is the one whose name sorts first.            *)
(***************************************************************************)
InitOrder ==
    /\ SolverIdle
    /\ \E names \in [Bundles -> BundleNames] :
          /\ StrLess(names[1], names[2])
          /\ NewBundles(names)
    /\ mod_deps \in DepsAssignments(ModNames, MaxModEdges)
    /\ AssetsIdle

\* solve_dependencies(bundles) for the two bundles in some order; deps is a
\* set, which is iterated in some order
solve_bundles ==
    /\ first = NoOutcome
    /\ \E o \in Orderings(Bundles) :
       \E d1 \in Orderings(_deps[1]), d2 \in Orderings(_deps[2]) :
          LET d == <<d1, d2>>
              ts == [i \in 1..Len(o) |-> Thing(name[o[i]], d[o[i]])]
          IN  /\ things' = ts
              /\ first' = solve_dependencies(ts, FALSE)
              /\ last' = Ended("solve_dependencies", 0, first'.raised)
    /\ UNCHANGED <<warn_missing, call, calls, name, _modules, _need_sort,
                   _deps, _assets, mod_deps, order, asset_vars>>

NextOrder ==
    \/ \E b \in Bundles, m \in ModNames :
          /\ first = NoOutcome
          /\ Len(_modules[b]) < MaxOrderModules
          /\ add_module(b, m)
    \/ solve_bundles

SpecOrder == InitOrder /\ [][NextOrder]_vars

\* isjs = self.name.lower().endswith('.js')
IsJs(n) ==
    /\ Len(n) >= 3
    /\ SubSeq(Lower(n), Len(n) - 2, Len(n)) = <<".", "j", "s">>

\* the strings of which Bundle.to_string builds its result: a line of the
\* table of contents, the banner with a name, the content of an asset, the
\* HEADER, the code of a module, the table of contents
TocLine(what, n) == [kind |-> what, of |-> n]
Section(what, n) == [kind |-> what, of |-> n, toc |-> <<>>]
AssetName(a) == <<a>>
Banner(n) == Section("banner", n)
Content(v) == Section("asset", <<v.type, v.v>>)
Header == Section("HEADER", <<>>)
Code(m, isjs) == Section(IF isjs THEN "get_js" ELSE "get_css", m)
Toc(lines) == [kind |-> "toc", of |-> <<>>, toc |-> lines]

\* for a in self.assets: the call of a.to_string() changes the asset, and
\* the loop ends where it raises; ys[a] is what the source of a yields
RECURSIVE AssetsLoop(_, _, _, _)
AssetsLoop(list, src_str, inv, ys) ==
    IF list = <<>>
    THEN [raised |-> FALSE, _source_str |-> src_str, invoked |-> inv,
          toc |-> <<>>, source |-> <<>>]
    ELSE LET a == Head(list)
             r == AssetToString(_source[a], src_str[a], ys[a])
             kept == [src_str EXCEPT ![a] = r._source_str]
             inv2 == [inv EXCEPT ![a] = @ + r.invoked]
         IN  IF r.raised
             THEN [raised |-> TRUE, _source_str |-> kept, invoked |-> inv2,
                   toc |-> <<>>, source |-> <<>>]
             ELSE LET rest == AssetsLoop(Tail(list), kept, inv2, ys)
                  IN  [rest EXCEPT
                         !.toc = <<TocLine("- asset ", AssetName(a))>> \o @,
                         !.source = <<Banner(AssetName(a)),
                                      Section("asset", <<r.value.type, r.value.v>>)>> \o @]

\* for m in self.modules
RECURSIVE ModulesLoop(_, _)
ModulesLoop(list, isjs) ==
    IF list = <<>> THEN [toc |-> <<>>, source |-> <<>>]
    ELSE LET rest == ModulesLoop(Tail(list), isjs)
         IN  [toc |-> <<TocLine("- module ", Head(list))>> \o rest.toc,
              source |-> <<Banner(Head(list)), Header, Code(Head(list), isjs)>>
                             \o rest.source]

\* faulty variant: a bundle with one item gets a table of contents too
NeedsTocNonEmpty(n) == n > 0

\* if len(self.assets + self.modules) > 1
NeedsToc(n) == n > 1

\* '\n\n'.join(source) raises for an element that is no str
JoinRaises(source) ==
    \E i \in 1..Len(source) :
        source[i].kind = "asset" /\ source[i].of[1] # "str"

\* Bundle.to_string() on bundle b
bundle_to_string(b) ==
    /\ \E ys \in [Assets -> UNION {Yields(k) : k \in SourceKinds}] :
          /\ \A a \in Assets : ys[a] \in Yields(_source[a])
          /\ LET loop == AssetsLoop(_assets[b], _source_str, invoked, ys)
                 sorted == SortModules(_modules[b], mod_deps)
                 mods == IF _need_sort[b] THEN NamesOf(sorted.result)
                         ELSE _modules[b]
                 mloop == ModulesLoop(mods, IsJs(name[b]))
                 source == loop.source \o mloop.source
                 toc == loop.toc \o mloop.toc
             IN  /\ \A a \in Assets : loop.invoked[a] <= MaxInvoked
                 /\ _source_str' = loop._source_str
                 /\ invoked' = loop.invoked
                 /\ IF loop.raised \/ (_need_sort[b] /\ sorted.raised)
                    THEN /\ last' = Ended("to_string", b, TRUE)
                         /\ returned' = [asset |-> "bundle", raised |-> TRUE,
                                         value |-> <<>>]
                         /\ UNCHANGED <<_modules, _need_sort, order>>
                    ELSE /\ _modules' = [_modules EXCEPT ![b] = mods]
                         /\ _need_sort' = [_need_sort EXCEPT ![b] =
                                IF @ THEN NeedSortAfterSort(@) ELSE @]
                         /\ order' = [order EXCEPT ![b] = Returned(@)]
                         /\ last' = Ended("to_string", b, JoinRaises(source))
                         /\ returned' =
                              [asset |-> "bundle",
                               raised |-> JoinRaises(source),
                               value |-> IF JoinRaises(source) THEN <<>>
                                         ELSE IF NeedsToc(Len(_assets[b]) + Len(mods))
                                         THEN <<Toc(toc)>> \o source
                                         ELSE source]
    /\ UNCHANGED <<name, _deps, _assets, mod_deps, _source, solver_vars>>

\* assets and modules are added to one bundle, which is turned into a string
NextContents ==
    \/ \E a \in Addable : add_asset(1, a)
    \/ \E m \in ModNames : add_module(1, m)
    \/ bundle_to_string(1)

InitContents ==
    /\ SolverIdle
    /\ \E n \in BundleNames :
          NewBundles([b \in Bundles |-> IF b = 1 THEN n ELSE <<"o", ".", "j", "s">>])
    /\ mod_deps \in DepsAssignments(ModNames, MaxModEdges - 1)
    /\ AssetsIdle

SpecContents == InitContents /\ [][NextContents]_vars

\* assets and modules are offered to one bundle
NextAccept ==
    \/ \E a \in Addable : add_asset(1, a)
    \/ \E m \in ModNames : add_module(1, m)

SpecAccept == InitContents /\ [][NextAccept]_vars

(***************************************************************************)
(* Vocabulary of the properties of the resolver.                           *)
(***************************************************************************)
\* the names present in the list ts
Present(ts) == Range(NamesOf(ts))

\* the present and the absent dependencies of each item of ts, by name
PresentDeps(ts) ==
    LET tm == ThingMap(ts)
    IN  [n \in DOMAIN tm |-> Range(tm[n].deps) \cap DOMAIN tm]

AbsentDeps(ts) ==
    LET tm == ThingMap(ts)
    IN  [n \in DOMAIN tm |-> Range(tm[n].deps) \ DOMAIN tm]

RECURSIVE ReachClosure(_, _)
ReachClosure(graph, acc) ==
    LET more == acc \cup UNION {graph[n] : n \in acc}
    IN  IF more = acc THEN acc ELSE ReachClosure(graph, more)

\* for each item of ts, the names reachable from it through one or more
\* present dependencies
Reach(ts) ==
    LET graph == PresentDeps(ts)
    IN  [n \in DOMAIN graph |-> ReachClosure(graph, graph[n])]

\* no item reaches itself, a self-dependency included
Acyclic(ts) == LET r == Reach(ts) IN \A n \in DOMAIN r : n \notin r[n]

\* two or more distinct items lie on a common dependency cycle
ProperCycle(ts) ==
    LET r == Reach(ts)
    IN  \E a, b \in DOMAIN r : a # b /\ b \in r[a] /\ a \in r[b]

\* the items of ts that are reachable from an item listed before them
PulledForward(ts) ==
    LET r == Reach(ts)
        names == NamesOf(ts)
    IN  UNION {r[names[i]] \ {names[k] : k \in 1..i} : i \in 1..Len(names)}

\* the 0-based position of the item named n in a list of things
PosOf(ts, n) == ListIndex(NamesOf(ts), n)

\* s and t hold the same elements the same number of times
IsPermutation(s, t) ==
    /\ Len(s) = Len(t)
    /\ \A x \in Range(s) \cup Range(t) :
          Cardinality({i \in 1..Len(s) : s[i] = x}) =
          Cardinality({i \in 1..Len(t) : t[i] = x})

\* ts with every absent dependency name removed from every item's deps
RECURSIVE KeepPresent(_, _)
KeepPresent(deps, present) ==
    IF deps = <<>> THEN <<>>
    ELSE IF Head(deps) \in present
         THEN <<Head(deps)>> \o KeepPresent(Tail(deps), present)
         ELSE KeepPresent(Tail(deps), present)

StripAbsent(ts) ==
    [i \in 1..Len(ts) |-> Thing(ts[i].name, KeepPresent(ts[i].deps, Present(ts)))]

\* how often the warning for (item n, dependency d) was logged
WarningCount(warnings, n, d) ==
    Cardinality({i \in 1..Len(warnings) : warnings[i] = <<n, d>>})

(***************************************************************************)
(* Properties of solve_dependencies, over whole calls (Spec).              *)
(***************************************************************************)
\* C1: on an input with distinct names whose present dependencies form no
\* cycle, the call does not raise and returns a permutation of the input in
\* which every item comes after each of its present dependencies.
C1_AcyclicSorted ==
    (calls >= 1 /\ Acyclic(things)) =>
        /\ call.pc = "done"
        /\ IsPermutation(Outcome.result, things)
        /\ LET deps == PresentDeps(things)
           IN  \A n \in Present(things) : \A d \in deps[n] :
                  PosOf(Outcome.result, d) < PosOf(Outcome.result, n)

\* a three-item chain was reordered by a successful call
C1_Witness ==
    /\ calls = 1 /\ call.pc = "done" /\ Acyclic(things)
    /\ Len(things) = 3
    /\ NamesOf(Outcome.result) # NamesOf(things)
    /\ \E x, y, z \in Present(things) :
          y \in PresentDeps(things)[x] /\ z \in PresentDeps(things)[y]

\* C2: on an input in which two or more distinct present items form a
\* dependency cycle, the call raises the circular-dependency error and
\* returns no ordering, whatever the input order and the other items.
C2_CycleRaises ==
    (calls >= 1 /\ ProperCycle(things)) =>
        /\ call.pc = "raised"
        /\ Outcome.raised /\ Outcome.result = <<>>

\* the call raised on a cycle through three distinct items
C2_Witness ==
    /\ calls = 1 /\ call.pc = "raised"
    /\ \E x, y, z \in Present(things) :
          /\ x # y /\ y # z /\ x # z
          /\ y \in PresentDeps(things)[x]
          /\ z \in PresentDeps(things)[y]
          /\ x \in PresentDeps(things)[z]

\* C3: a second call on the list the first call returned succeeds and
\* returns exactly that list again.
C3_Idempotent ==
    calls = 2 => (call.pc = "done" /\ Outcome.result = first.result)

\* the second call has run on three items with present dependencies
C3_Witness ==
    /\ calls = 2 /\ call.pc = "done"
    /\ Len(first.result) = 3
    /\ \E x, y, z \in Present(things) :
          y \in PresentDeps(things)[x] /\ z \in PresentDeps(things)[y]

\* C4 as claimed: for every pair of items neither of which is reachable from
\* the other, the output keeps the relative order of the input.
C4_StableAsClaimed ==
    (calls = 1 /\ call.pc = "done") =>
        \A p, q \in Present(things) :
            (p # q /\ p \notin Reach(things)[q] /\ q \notin Reach(things)[p]) =>
                ((PosOf(Outcome.result, p) < PosOf(Outcome.result, q)) <=>
                 (PosOf(things, p) < PosOf(things, q)))

\* C4: for every pair of items neither of which is reachable, through
\* dependencies, from an item that precedes it in the input, the output
\* keeps the relative order of the input.
C4_StableUnpulled ==
    (calls = 1 /\ call.pc = "done") =>
        \A p, q \in Present(things) \ PulledForward(things) :
            p # q =>
                ((PosOf(Outcome.result, p) < PosOf(Outcome.result, q)) <=>
                 (PosOf(things, p) < PosOf(things, q)))

\* a call moved a dependency over two items that kept their order
C4_Witness ==
    /\ calls = 1 /\ call.pc = "done" /\ Len(things) = 3
    /\ PulledForward(things) = {things[3].name}
    /\ NamesOf(Outcome.result) =
          <<things[3].name, things[1].name, things[2].name>>

\* C5: absent dependency names never change the outcome: the call raises,
\* or returns its order, exactly as the call on the input with every absent
\* dependency name removed does.
C5_AbsentIgnored ==
    calls >= 1 =>
        LET other == solve_dependencies(StripAbsent(things), warn_missing)
        IN  /\ other.raised = Outcome.raised
            /\ NamesOf(other.result) = NamesOf(Outcome.result)

\* a call moved a dependency that is declared after an absent one
C5_Witness ==
    /\ calls = 1 /\ call.pc = "done"
    /\ NamesOf(Outcome.result) # NamesOf(things)
    /\ \E i \in 1..Len(things) :
          /\ Len(things[i].deps) >= 2
          /\ things[i].deps[1] \notin Present(things)
          /\ things[i].deps[2] \in Present(things)
          /\ PosOf(things, things[i].deps[2]) > i - 1

\* C6 as claimed: a successful call with warn_missing logs exactly one
\* warning for each declared (item, absent dependency) pair and no other
\* warning, and a call without warn_missing logs none.
C6_OneWarningPerPair ==
    (calls = 1 /\ call.pc = "done") =>
        IF warn_missing
        THEN /\ \A n \in Present(things) : \A d \in AbsentDeps(things)[n] :
                   WarningCount(Outcome.warnings, n, d) = 1
             /\ \A i \in 1..Len(Outcome.warnings) :
                   /\ Outcome.warnings[i][1] \in Present(things)
                   /\ Outcome.warnings[i][2] \in
                         AbsentDeps(things)[Outcome.warnings[i][1]]
        ELSE Outcome.warnings = <<>>

(***************************************************************************)
(* Properties of Bundle (SpecBundle, SpecAdd).                             *)
(***************************************************************************)
\* the module objects of bundle b as the resolver sees them
Units(b) == AsThings(_modules[b], mod_deps)

\* in the list of bundle b, every module comes after each of the modules of
\* the bundle that it now depends on
DepsFirst(b) ==
    LET deps == PresentDeps(Units(b))
    IN  \A n \in DOMAIN deps : \A d \in deps[n] :
           ListIndex(_modules[b], d) < ListIndex(_modules[b], n)

\* C7: the order the modules property returns depends only on the set of
\* modules added (distinct names, acyclic deps): a bundle that holds the same
\* modules in any other order returns the same sequence, and in it every
\* module comes after each of its dependencies in the bundle.
C7_OrderIndependent ==
    \A b \in Bundles :
        (last.op = "modules" /\ last.b = b /\ Acyclic(Units(b))) =>
            /\ ~last.raised
            /\ \A other \in Orderings(Range(_modules[b])) :
                  /\ ~SortModules(other, mod_deps).raised
                  /\ NamesOf(SortModules(other, mod_deps).result) = _modules[b]
            /\ DepsFirst(b)

\* three modules were returned in an order that a dependency, not the names,
\* decides
C7_Witness ==
    /\ last = Ended("modules", 1, FALSE) /\ Acyclic(Units(1))
    /\ Len(_modules[1]) = 3
    /\ _modules[1] # SortedByName(_modules[1])

\* C8 as claimed: right after the modules property has sorted, _need_sort
\* is false (and stays so until the next add_module).
C8_FlagCleared ==
    \A b \in Bundles :
        (last = Ended("modules", b, FALSE)) => ~_need_sort[b]

\* C9: once the deps of a module of a bundle have changed after the modules
\* property had computed an order (and no cycle was introduced), the next
\* read of the property succeeds and returns an order in which every module
\* comes after each of its current dependencies in the bundle.
C9_NoStaleOrder ==
    \A b \in Bundles :
        (/\ last.op = "modules" /\ last.b = b
         /\ order[b] \in {"stale", "renewed"}
         /\ Acyclic(Units(b))) =>
            (~last.raised /\ order[b] = "renewed" /\ DepsFirst(b))

\* the property was read again after a change of deps, and the order it
\* returned is not the order of the names
C9_Witness ==
    /\ last = Ended("modules", 1, FALSE) /\ order[1] = "renewed"
    /\ Acyclic(Units(1))
    /\ Len(_modules[1]) >= 2
    /\ _modules[1] # SortedByName(_modules[1])

\* d is dep, or a part of dep that ends right before one of its dots
IsDottedPrefix(d, dep) ==
    \/ d = dep
    \/ /\ Len(d) < Len(dep)
       /\ SubSeq(dep, 1, Len(d)) = d
       /\ dep[Len(d) + 1] = "."

\* the dependencies declared by the modules added to bundle b
DeclaredBy(b) == UNION {Range(mod_deps[m]) : m \in Range(_modules[b])}

\* C10: after any sequence of add_module calls on a bundle with namespace N
\* and extension E, Bundle.deps is exactly the set of d + E for the names d
\* that are a dotted-path prefix (the full name included) of a dependency
\* declared by an added module and that are not inside the namespace (d
\* does not start with N, and N does not start with d + '.'); in particular
\* it never contains the bundle's own name.
C10_AggregateDeps ==
    \A b \in Bundles :
        LET N == ModuleNameOf(name[b])
            E == ExtOf(name[b])
            outside ==
                {d \in UNION {{SubSeq(dep, 1, k) : k \in 0..Len(dep)} :
                                 dep \in DeclaredBy(b)} :
                    /\ \E dep \in DeclaredBy(b) : IsDottedPrefix(d, dep)
                    /\ ~StartsWith(d, N)
                    /\ ~StartsWith(N, d \o <<".">>)}
        IN  /\ _deps[b] = {d \o E : d \in outside}
            /\ name[b] \notin _deps[b]

\* the bundle p.js holds p.a, which depends on p.b.c and on o.x: its deps
\* are o.x.js and o.js
C10_Witness ==
    /\ name[1] = <<"p", ".", "j", "s">>
    /\ _modules[1] = <<<<"p", ".", "a">>>>
    /\ Range(mod_deps[<<"p", ".", "a">>]) =
          {<<"p", ".", "b", ".", "c">>, <<"o", ".", "x">>}
    /\ _deps[1] = {<<"o", ".", "x", ".", "j", "s">>, <<"o", ".", "j", "s">>}

(***************************************************************************)
(* C11: add_module with a module whose name does not start with the        *)
(* namespace of the bundle fails with the namespace error and changes      *)
(* nothing: the module list, the asset list, the sort flag and the         *)
(* aggregate dependency set are what they were before the call.            *)
(***************************************************************************)
C11_RejectedChangesNothing ==
    [][\A m \in ModNames :
          (~StartsWith(m, ModuleNameOf(name[1])) /\ add_module(1, m))
              => /\ last' = Ended("add_module", 1, TRUE)
                 /\ UNCHANGED <<_modules, _assets, _need_sort, _deps>>]_vars

\* a module was rejected by a bundle that holds modules, assets and
\* dependencies
C11_Witness ==
    /\ last = Ended("add_module", 1, TRUE)
    /\ _modules[1] # <<>> /\ _assets[1] # <<>> /\ _deps[1] # {}
    /\ _need_sort[1]

\* what one step does to the asset list of bundle 1
AssetsStep ==
    /\ \A a \in Addable \ Assets :
          (add_asset(1, a) =>
              (last' = Ended("add_asset", 1, TRUE) /\ UNCHANGED _assets))
    /\ \A a \in Assets :
          (add_asset(1, a) =>
              (/\ last' = Ended("add_asset", 1, FALSE)
               /\ _assets'[1] = Append(_assets[1], a)))
    /\ ((last'.op # "add_asset") => UNCHANGED _assets)

(***************************************************************************)
(* C12: the asset list of a bundle holds exactly the accepted plain assets *)
(* in the order they were added and never holds a bundle: add_asset with a *)
(* bundle or with an object that is no asset raises and leaves the list    *)
(* unchanged, add_asset with a plain asset appends it, and nothing else    *)
(* changes the list.                                                       *)
(***************************************************************************)
C12_PlainAssetsInOrder ==
    /\ [](\A i \in 1..Len(_assets[1]) : _assets[1][i] \in Assets)
    /\ [][AssetsStep]_vars

\* an object was rejected by a bundle that holds assets and modules
C12_Witness ==
    /\ last = Ended("add_asset", 1, TRUE)
    /\ Len(_assets[1]) = MaxAssets - 1
    /\ _modules[1] # <<>>

(***************************************************************************)
(* C13 as claimed: over any sequence of to_string calls on one asset the   *)
(* source function is called at most once and the URL is fetched at most   *)
(* once.                                                                   *)
(***************************************************************************)
C13_ComputedAtMostOnce == \A a \in Assets : invoked[a] <= 1

(***************************************************************************)
(* C13, amended: once to_string has kept a value for an asset, no later    *)
(* to_string call on it calls the source function or fetches the URL, the  *)
(* kept value never changes and every later call returns it.               *)
(***************************************************************************)
C13_KeptValueNotRecomputed ==
    [][\A a \in Assets :
          (_source_str[a] # None) =>
              /\ invoked'[a] = invoked[a]
              /\ _source_str'[a] = _source_str[a]
              /\ asset_to_string(a) =>
                    returned' = [asset |-> a, raised |-> FALSE,
                                 value |-> _source_str[a]]]_vars

\* to_string returned the value kept by an earlier call, for an asset with
\* a source function and for an asset with a URL
C13_Witness ==
    /\ returned.asset \in Assets /\ ~returned.raised
    /\ \E a, b \in Assets :
          /\ _source[a] = "function" /\ _source[b] = "url"
          /\ invoked[a] = 1 /\ invoked[b] = 1
          /\ IsStr(_source_str[a]) /\ IsStr(_source_str[b])

(***************************************************************************)
(* C18 as claimed: Asset.to_string never returns a value that is not text, *)
(* and an asset whose source function returned a value that is not text    *)
(* keeps no content.                                                       *)
(***************************************************************************)
C18_NeverReturnsNonText ==
    /\ (returned.asset \in Assets /\ ~returned.raised) => IsStr(returned.value)
    /\ \A a \in Assets : (_source_str[a] # None) => IsStr(_source_str[a])

\* bundle y holds a module that declares a dependency outside the namespace
\* of y, and the name of bundle x is a dotted-path prefix p of that
\* dependency followed by the extension; Ok(p) restricts the prefixes
NamedByDepOf(x, y, Ok(_)) ==
    \E dep \in DeclaredBy(y) :
        /\ ~Represented(dep, ModuleNameOf(name[y]))
        /\ \E k \in 1..Len(dep) :
              /\ IsDottedPrefix(SubSeq(dep, 1, k), dep)
              /\ Ok(SubSeq(dep, 1, k))
              /\ name[x] = SubSeq(dep, 1, k) \o ExtOf(name[y])

\* bundle x is in the deps of bundle y, and precedes y in the list returned
\* by the resolver when it returned one
OrderedBefore(x, y) ==
    /\ name[x] \in _deps[y]
    /\ ~first.raised => PosOf(first.result, name[x]) < PosOf(first.result, name[y])

AnyPrefix(p) == TRUE

(***************************************************************************)
(* C14 as claimed: for bundles X and Y with the same extension handed      *)
(* together to solve_dependencies, if a module added to Y declares a       *)
(* dependency d outside the namespace of Y and the name of X is p +        *)
(* extension for a dotted-path prefix p of d, then X.name is in Y.deps     *)
(* and, when the resolver succeeds, X precedes Y in the result.            *)
(***************************************************************************)
C14_BundlesOrdered ==
    last.op = "solve_dependencies" =>
        \A x, y \in Bundles :
            (ExtOf(name[x]) = ExtOf(name[y]) /\ NamedByDepOf(x, y, AnyPrefix))
                => OrderedBefore(x, y)

(***************************************************************************)
(* C14, amended: the same, for a prefix p that is itself outside the       *)
(* namespace N of Y: p does not start with N and N does not start with     *)
(* p + '.'.                                                                *)
(***************************************************************************)
C14_OutsidePrefixOrdered ==
    last.op = "solve_dependencies" =>
        \A x, y \in Bundles :
            LET Outside(p) == ~Represented(p, ModuleNameOf(name[y]))
            IN  (ExtOf(name[x]) = ExtOf(name[y]) /\ NamedByDepOf(x, y, Outside))
                    => OrderedBefore(x, y)

\* the resolver was handed p.js before o.js, p.js depends on o.js through a
\* module that depends on o.x, and the resolver returned o.js first
C14_Witness ==
    /\ last = Ended("solve_dependencies", 0, FALSE)
    /\ \E x, y \in Bundles :
          LET Outside(p) == ~Represented(p, ModuleNameOf(name[y]))
          IN  /\ NamedByDepOf(x, y, Outside)
              /\ PosOf(things, name[y]) < PosOf(things, name[x])
              /\ PosOf(first.result, name[x]) < PosOf(first.result, name[y])

\* what Bundle.to_string returned last
Rendered == returned.value

\* the sections of the result, without the table of contents
RenderedBody ==
    IF Rendered # <<>> /\ Rendered[1].kind = "toc" THEN Tail(Rendered) ELSE Rendered

(***************************************************************************)
(* C15: Bundle.to_string emits the sections in a fixed order: the section  *)
(* of every asset (in insertion order) precedes the section of every       *)
(* module, and the module sections are in the order returned by            *)
(* Bundle.modules; a table of contents that lists every asset and module   *)
(* is placed first if and only if there are more than one of them.         *)
(***************************************************************************)
C15_SectionsInOrder ==
    last = Ended("to_string", 1, FALSE) =>
        LET A == _assets[1]
            M == NamesOf(SortModules(_modules[1], mod_deps).result)
            nA == Len(A)
            nM == Len(M)
        IN  /\ Len(RenderedBody) = 2 * nA + 3 * nM
            /\ \A i \in 1..nA :
                  /\ RenderedBody[2 * i - 1] = Banner(AssetName(A[i]))
                  /\ RenderedBody[2 * i].kind = "asset"
            /\ \A i \in 1..nM :
                  /\ RenderedBody[2 * nA + 3 * i - 2] = Banner(M[i])
                  /\ RenderedBody[2 * nA + 3 * i - 1] = Header
                  /\ RenderedBody[2 * nA + 3 * i].of = M[i]
                  /\ RenderedBody[2 * nA + 3 * i].kind \in {"get_js", "get_css"}
            /\ (Rendered # RenderedBody) <=> (nA + nM > 1)
            /\ (Rendered # RenderedBody) =>
                  Rendered[1].toc =
                      [i \in 1..(nA + nM) |->
                          IF i <= nA THEN TocLine("- asset ", AssetName(A[i]))
                          ELSE TocLine("- module ", M[i - nA])]

\* to_string returned for a bundle with two assets and two modules whose
\* insertion order is not the order of Bundle.modules; and it returned for
\* a bundle with one item
C15_Witness ==
    /\ last = Ended("to_string", 1, FALSE)
    /\ Len(_assets[1]) = MaxAssets
    /\ _assets[1][1] # _assets[1][2]
    /\ Len(_modules[1]) >= 2
    /\ _modules[1] # SortedByName(_modules[1])
    /\ Rendered[1].kind = "toc"

\* the input of the example: c depends on a, a on nothing, b on a
Example ==
    <<Thing("c", <<"a">>), Thing("a", <<>>), Thing("b", <<"a">>)>>

\* a step that moves a dependency takes it from a position j behind index
\* to index, shifts the items from index to j - 1 one place to the right and
\* leaves every other item where it is (0-based positions)
LocalMove ==
    Pull =>
        \E j \in call.index + 1..Len(call.names) - 1 :
            /\ call.names[j + 1] \in Range(ThingMap(things)[call.names[call.index + 1]].deps)
            /\ call'.names[call.index + 1] = call.names[j + 1]
            /\ \A k \in call.index + 1..j : call'.names[k + 1] = call.names[k]
            /\ \A k \in 0..Len(call.names) - 1 :
                  (k < call.index \/ k > j) => call'.names[k + 1] = call.names[k + 1]
            /\ call'.index = call.index

\* no step moves an item at a position below index
SettledStay ==
    /\ Len(call'.names) = Len(call.names)
    /\ \A k \in 0..call.index - 1 : call'.names[k + 1] = call.names[k + 1]
    /\ (~Pull) => call'.names = call.names

(***************************************************************************)
(* C16: each step that pulls a dependency forward changes the working list *)
(* only locally: the dependency moves from its position j to index, the    *)
(* items at index..j-1 shift right by one and all other items keep their   *)
(* position, so the settled positions below index never move; and          *)
(* [c(deps a), a, b(deps a)] resolves to exactly [a, c, b].                *)
(***************************************************************************)
C16_PullIsLocal ==
    /\ [][LocalMove /\ SettledStay]_vars
    /\ []((things = Example /\ call.pc = "done")
            => call.names = <<"a", "c", "b">>)
    /\ [](things = Example => call.pc # "raised")

\* the call on the example has returned a, c, b
C16_Witness ==
    /\ things = Example
    /\ call.pc = "done"
    /\ call.names = <<"a", "c", "b">>

\* the call has returned or raised
Terminated == call.pc \in {"done", "raised"}

\* the guards of the steps: one of ForIter, Return, Raise, Pull and Settle
\* can be taken
HasStep ==
    \/ call.pc = "for" /\ call.index < Len(call.names)
    \/ call.pc = "for" /\ call.index >= Len(call.names)
    \/ call.pc = "while" /\ Stepped.pc \in {"raised", "while", "for"}

\* a bound on the number of steps a call in state st has left: the indexes
\* not yet settled, each with its while loop of at most n + 1 iterations
\* and the head of the for loop, and the final test of the for loop
StepsLeft(st) ==
    LET n == Len(st.names)
    IN  IF st.pc \in {"done", "raised"} THEN 0
        ELSE IF st.pc = "for" THEN (n - st.index) * (n + 2) + n + 1
        ELSE (n - st.index) * (n + 2) + n - Cardinality(st.seen_names)

\* an iteration of the while loop that does not raise adds the name at index
\* to the seen names, which did not hold it
SeenGrows ==
    (call.pc = "while" /\ Stepped.pc # "raised") =>
        /\ call.names[call.index + 1] \notin call.seen_names
        /\ Stepped.seen_names = call.seen_names \cup {call.names[call.index + 1]}

(***************************************************************************)
(* C17: solve_dependencies terminates on every finite input with distinct  *)
(* names: until the call has returned or raised it has a next step, and    *)
(* that step lowers a bound on the steps left that is never negative;      *)
(* every iteration of the while loop at one index that does not raise adds *)
(* a new name to the seen names, which are names of the list, so that the  *)
(* loop at one index performs at most n + 1 iterations for n items.        *)
(***************************************************************************)
C17_Terminates ==
    /\ Terminated \/ HasStep
    /\ ~Terminated => (StepsLeft(Stepped) < StepsLeft(call) /\ SeenGrows)
    /\ StepsLeft(call) >= 0
    /\ call.seen_names \subseteq Range(call.names)
    /\ Cardinality(call.seen_names) <= Len(things)
    /\ Len(call.names) = Len(things)

\* the while loop at one index has run three iterations on three items and
\* raises in its fourth
C17_Witness ==
    /\ Len(things) = NumNames
    /\ call.pc = "while"
    /\ Cardinality(call.seen_names) = NumNames
    /\ call.names[call.index + 1] \in call.seen_names

\* the things without the dependencies on themselves
StripSelf(ts) ==
    [i \in 1..Len(ts) |->
        Thing(ts[i].name,
              LET d == ts[i].deps
                  RECURSIVE Keep(_)
                  Keep(k) == IF k > Len(d) THEN <<>>
                             ELSE IF d[k] = ts[i].name THEN Keep(k + 1)
                             ELSE <<d[k]>> \o Keep(k + 1)
              IN  Keep(1))]

\* a thing lists its own name among its deps
SelfDependent(ts) == \E i \in 1..Len(ts) : ts[i].name \in Range(ts[i].deps)

(***************************************************************************)
(* C20: a dependency of an item on itself is not reported as circular: the *)
(* call raises, orders and warns exactly as it does on the same input with *)
(* every dependency of an item on itself removed.                          *)
(***************************************************************************)
C20_SelfDependencyIgnored ==
    calls = 1 =>
        LET plain == solve_dependencies(StripSelf(things), warn_missing)
        IN  /\ Outcome.raised = plain.raised
            /\ NamesOf(Outcome.result) = NamesOf(plain.result)
            /\ Outcome.warnings = plain.warnings

\* the call has returned a reordered list for an input in which an item
\* depends on itself and on an item behind it
C20_Witness ==
    /\ calls = 1 /\ call.pc = "done"
    /\ SelfDependent(things)
    /\ \E i \in 1..Len(things) :
          /\ things[i].name \in Range(things[i].deps)
          /\ NamesOf(Outcome.result)[1] # things[1].name
          /\ i = 1

\* what one step does to the module list of bundle 1: add_module appends a
\* module that is not in it, the modules property reorders it, and a
\* modules property that raises leaves the bundle as it was
StoredStep ==
    /\ \/ UNCHANGED _modules
       \/ /\ last' = Ended("add_module", 1, FALSE)
          /\ \E m \in ModNames :
                /\ ~Contains(_modules[1], m)
                /\ _modules'[1] = Append(_modules[1], m)
       \/ /\ last' = Ended("modules", 1, FALSE)
          /\ IsPermutation(_modules'[1], _modules[1])
    /\ (last' = Ended("modules", 1, TRUE)) =>
          UNCHANGED <<_modules, _need_sort, _deps>>

(***************************************************************************)
(* C19: sorting never loses or duplicates modules: the stored module list  *)
(* of a bundle is a permutation of the modules it accepted, and when the   *)
(* resolver raises inside the modules property the stored list, the sort   *)
(* flag and the aggregate dependency set are left as they were.            *)
(***************************************************************************)
C19_SortKeepsModules ==
    /\ [](NoDup(_modules[1]))
    /\ [][StoredStep]_vars

\* the modules property raised on a bundle with a dependency cycle among
\* its modules, after an earlier read had reordered the modules
C19_Witness ==
    /\ last = Ended("modules", 1, TRUE)
    /\ Len(_modules[1]) = MaxModules
    /\ _need_sort[1]
    /\ order[1] # "none"

====
